---- MODULE Spec2Model ----
(***************************************************************************)
(* A model of the Liso HTTP server core: the growable socket buffer and    *)
(* the file-to-socket pipe (src/src/io.c), the incremental request parser  *)
(* (src/src/http_parser.c) and the GET/HEAD/POST handlers                  *)
(* (src/src/request_handler.c).                                            *)
(*                                                                         *)
(* Bytes are one-character strings; C strings and buffers are sequences of *)
(* bytes.                                                                  *)
(***************************************************************************)
EXTENDS Integers, Sequences, FiniteSets, TLC

VARIABLES
    mode,       \* which part of the program this behaviour exercises
    input,      \* the argument of the pure function under study (a line)
    output,     \* [done, res]: whether it was called, and its result
    bp,         \* a buf_t: [buf, bufsize, datasize, pos]
    bop,        \* the last buffer operation and what it observed
    pp,         \* a pipe_t with its source file and destination socket
    client,     \* an http_client_t: [req, in, status, pipe, out, files] and, of
                \* the event loop, closing (to be closed), closed, drained (the
                \* items of out that were sent) and piped (how its pipes ended)
    wire,       \* request bytes the peer has not sent yet
    scen,       \* the requests the peer sends on this connection
    trace,      \* per http_parse call that did something: its events
    call,       \* the last call: [op, before, ret, ev, paired, ctx]; for
                \* http_parse the client before it, its result and events;
                \* paired while every http_parse call so far came right
                \* after an io_recv call; ctx is the context before the call
    context     \* the select context of io.c

vars == <<mode, input, output, bp, bop, pp, client, wire, scen, trace, call,
          context>>

fnVars == <<input, output>>
bufVars == <<bp, bop>>
connVars == <<client, wire, scen, trace, call, context>>

(***************************************************************************)
(* Bytes and C string helpers                                              *)
(***************************************************************************)
SP == " "
TAB == "\t"
CR == "\r"
LF == "\n"

\* isspace() as used by sscanf's %s and by the blanks of its format string
IsSpace(c) == c \in {SP, TAB, CR, LF}

LowerOf == [A |-> "a", B |-> "b", C |-> "c", D |-> "d", E |-> "e", F |-> "f",
            G |-> "g", H |-> "h", I |-> "i", J |-> "j", K |-> "k", L |-> "l",
            M |-> "m", N |-> "n", O |-> "o", P |-> "p", Q |-> "q", R |-> "r",
            S |-> "s", T |-> "t", U |-> "u", V |-> "v", W |-> "w", X |-> "x",
            Y |-> "y", Z |-> "z"]

tolower(c) == IF c \in DOMAIN LowerOf THEN LowerOf[c] ELSE c

\* strcicmp(a, b) == 0: equal length and equal byte by byte after tolower
strcicmp_eq(a, b) ==
    /\ Len(a) = Len(b)
    /\ \A i \in 1..Len(a) : tolower(a[i]) = tolower(b[i])

\* s[i..j] as a sequence (empty when j < i)
Slice(s, i, j) == IF j < i THEN << >> ELSE SubSeq(s, i, j)

\* strchr(s, c): index of the first c in s, 0 when there is none
strchr(s, c) ==
    IF \E i \in 1..Len(s) : s[i] = c
    THEN CHOOSE i \in 1..Len(s) : s[i] = c /\ \A j \in 1..(i - 1) : s[j] # c
    ELSE 0

(***************************************************************************)
(* Configuration (config.h): the version the server speaks                 *)
(***************************************************************************)
http_version == <<"H", "T", "T", "P", "/", "1", ".", "1">>

OK == 200
BAD_REQUEST == 400
NOT_FOUND == 404
METHOD_NOT_ALLOWED == 405
LENGTH_REQUIRED == 411
INTERNAL_SERVER_ERROR == 500
NOT_IMPLEMENTED == 501
HTTP_VERSION_NOT_SUPPORTED == 505

mGET == <<"G", "E", "T">>
mHEAD == <<"H", "E", "A", "D">>
mPOST == <<"P", "O", "S", "T">>

(***************************************************************************)
(* sscanf(line, "%s %s %s", ...): each %s skips white space and then takes *)
(* the bytes up to the next white space; the result counts the conversions *)
(* that found a token.                                                     *)
(***************************************************************************)
RECURSIVE SkipSpace(_, _)
SkipSpace(s, i) ==
    IF i <= Len(s) /\ IsSpace(s[i]) THEN SkipSpace(s, i + 1) ELSE i

RECURSIVE TokenEnd(_, _)
TokenEnd(s, i) ==
    IF i <= Len(s) /\ ~IsSpace(s[i]) THEN TokenEnd(s, i + 1) ELSE i

\* the tokens the first n conversions assign, in order
RECURSIVE sscanf_s(_, _, _)
sscanf_s(s, i, n) ==
    LET b == SkipSpace(s, i)
        e == TokenEnd(s, b)
    IN  IF n = 0 \/ b > Len(s) THEN << >>
        ELSE <<Slice(s, b, e - 1)>> \o sscanf_s(s, e, n - 1)

(***************************************************************************)
(* parse_request_line: the result is the status, the request with method   *)
(* and uri as sscanf left them, and the local buffer `version`.            *)
(***************************************************************************)
\* parse_request_line that compares with strcmp where the code has strcicmp
parse_request_line_strcmp(req, line) ==
    LET toks == sscanf_s(line, 1, 3)
        r1 == IF Len(toks) >= 1 THEN [req EXCEPT !.method = toks[1]] ELSE req
        r2 == IF Len(toks) >= 2 THEN [r1 EXCEPT !.uri = toks[2]] ELSE r1
        version == IF Len(toks) >= 3 THEN toks[3] ELSE << >>
    IN  IF Len(toks) < 3
        THEN [ret |-> BAD_REQUEST, req |-> r2, version |-> version]
        ELSE IF r2.method # mGET /\ r2.method # mHEAD /\ r2.method # mPOST
        THEN [ret |-> METHOD_NOT_ALLOWED, req |-> r2, version |-> version]
        ELSE IF version # http_version
        THEN [ret |-> HTTP_VERSION_NOT_SUPPORTED, req |-> r2, version |-> version]
        ELSE [ret |-> 0, req |-> r2, version |-> version]

parse_request_line(req, line) ==
    LET toks == sscanf_s(line, 1, 3)
        r1 == IF Len(toks) >= 1 THEN [req EXCEPT !.method = toks[1]] ELSE req
        r2 == IF Len(toks) >= 2 THEN [r1 EXCEPT !.uri = toks[2]] ELSE r1
        version == IF Len(toks) >= 3 THEN toks[3] ELSE << >>
    IN  IF Len(toks) < 3
        THEN [ret |-> BAD_REQUEST, req |-> r2, version |-> version]
        ELSE IF /\ ~strcicmp_eq(r2.method, mGET)
                /\ ~strcicmp_eq(r2.method, mHEAD)
                /\ ~strcicmp_eq(r2.method, mPOST)
        THEN [ret |-> METHOD_NOT_ALLOWED, req |-> r2, version |-> version]
        ELSE IF ~strcicmp_eq(version, http_version)
        THEN [ret |-> HTTP_VERSION_NOT_SUPPORTED, req |-> r2, version |-> version]
        ELSE [ret |-> 0, req |-> r2, version |-> version]

(***************************************************************************)
(* copy_trimmed_string(head, tail) on the bytes s[head..tail]: NULL when   *)
(* nothing is left after the loop, else the copy of s[head..tail].         *)
(***************************************************************************)
\* a NULL char*: no string
NULL == [null |-> TRUE]

Str(s) == [null |-> FALSE, str |-> s]

RECURSIVE trim_loop(_, _, _)
trim_loop(s, head, tail) ==
    IF head <= tail
    THEN IF s[head] # SP /\ s[tail] # SP
         THEN <<head, tail>>
         ELSE trim_loop(s,
                        IF s[head] = SP THEN head + 1 ELSE head,
                        IF s[tail] = SP THEN tail - 1 ELSE tail)
    ELSE <<head, tail>>

copy_trimmed_string_headonly(s, head, tail) ==
    LET h == SkipSpace(s, head)
    IN  IF h > tail THEN NULL ELSE Str(Slice(s, h, tail))

copy_trimmed_string(s, head, tail) ==
    LET ht == trim_loop(s, head, tail)
    IN  IF ht[1] > ht[2] THEN NULL ELSE Str(Slice(s, ht[1], ht[2]))

(***************************************************************************)
(* parse_header: -1 and the request untouched, or 0 and the new header     *)
(* put at the front of req->headers.                                       *)
(***************************************************************************)
parse_header(req, line) ==
    LET val == strchr(line, ":")
    IN  IF val = 0 \/ val = Len(line) \/ val = 1
        THEN [ret |-> -1, req |-> req]
        ELSE LET key == copy_trimmed_string(line, 1, val - 1)
                 v == copy_trimmed_string(line, val + 1, Len(line))
             IN  IF key = NULL THEN [ret |-> -1, req |-> req]
                 ELSE IF v = NULL THEN [ret |-> -1, req |-> req]
                 ELSE [ret |-> 0,
                       req |-> [req EXCEPT
                                  !.headers =
                                      <<[key |-> key.str, val |-> v.str]>> \o @]]

(***************************************************************************)
(* The growable buffer of io.c.  A buf_t is [buf, bufsize, datasize, pos]; *)
(* buf holds the datasize valid bytes (what lies beyond them is never      *)
(* read).  BUFSIZE (io.h) is scaled down; every formula below is stated in *)
(* terms of it.                                                            *)
(***************************************************************************)
BUFSIZE == 4

Min(a, b) == IF a < b THEN a ELSE b

\* x >> 1 on a non-negative int
Shr1(x) == x \div 2

init_buf == [buf |-> << >>, bufsize |-> BUFSIZE, datasize |-> 0, pos |-> 0]

full(b) == b.datasize + Shr1(BUFSIZE) > b.bufsize

empty(b) == (b.bufsize - b.datasize + b.pos) > BUFSIZE

\* io_shrink that forgets to move the unread bytes to the head of the buffer
io_shrink_nomove(b) ==
    LET freespace == b.bufsize - b.datasize + b.pos
    IN  [buf |-> Slice(b.buf, 1, b.datasize - b.pos),
         bufsize |-> b.bufsize - Shr1(freespace),
         datasize |-> b.datasize - b.pos,
         pos |-> 0]

\* io_shrink that forgets to take the consumed bytes off datasize
io_shrink_keepsize(b) ==
    LET freespace == b.bufsize - b.datasize + b.pos
    IN  [buf |-> b.buf,
         bufsize |-> b.bufsize - Shr1(freespace),
         datasize |-> b.datasize,
         pos |-> 0]

\* io_shrink that cuts off all of the free space
io_shrink_all(b) ==
    LET freespace == b.bufsize - b.datasize + b.pos
        datasize == b.datasize - b.pos
    IN  [buf |-> Slice(b.buf, b.pos + 1, b.pos + datasize),
         bufsize |-> b.bufsize - freespace,
         datasize |-> datasize,
         pos |-> 0]

io_shrink(b) ==
    LET freespace == b.bufsize - b.datasize + b.pos
        datasize == b.datasize - b.pos
    IN  [buf |-> Slice(b.buf, b.pos + 1, b.pos + datasize),
         bufsize |-> b.bufsize - Shr1(freespace),
         datasize |-> datasize,
         pos |-> 0]

(***************************************************************************)
(* io_recv.  The socket holds the bytes `data` and then reports `fin`:     *)
(* "again" (EAGAIN / EWOULDBLOCK), "closed" (recv returns 0) or "error".   *)
(* Each recv call is given the window bufsize - datasize - 1 and returns   *)
(* as many of the pending bytes as fit; a window of 0 makes recv return 0. *)
(* The result holds the buffer, the return value, the bytes left in the    *)
(* socket and, per recv call that returned bytes, a step [cap, size,       *)
(* newcap]: bufsize before the test of full(), datasize with the bytes     *)
(* added, and bufsize after.                                               *)
(***************************************************************************)
RECURSIVE recv_loop(_, _, _)
recv_loop(b, data, fin) ==
    LET window == b.bufsize - b.datasize - 1
        nbytes == Min(window, Len(data))
        b1 == [b EXCEPT !.buf = @ \o SubSeq(data, 1, nbytes),
                        !.datasize = @ + nbytes]
        b2 == IF full(b1)
              THEN [b1 EXCEPT !.bufsize = @ + Shr1(@)]
              ELSE b1
    IN  IF window <= 0
        THEN [bp |-> b, ret |-> 0, left |-> data, zerowin |-> TRUE,
              steps |-> << >>]
        ELSE IF data = << >>
        THEN [bp |-> b,
              ret |-> CASE fin = "closed" -> 0
                        [] fin = "error" -> -1
                        [] OTHER -> b.datasize,
              left |-> data, zerowin |-> FALSE, steps |-> << >>]
        ELSE [recv_loop(b2, SubSeq(data, nbytes + 1, Len(data)), fin)
                EXCEPT !.steps = <<[cap |-> b1.bufsize, size |-> b1.datasize,
                                    newcap |-> b2.bufsize]>> \o @]

io_recv(b, data, fin) == recv_loop(b, data, fin)

(***************************************************************************)
(* io_send.  The socket takes `cap` bytes and then reports `fin`: "again"  *)
(* or "error".  Each send call is given all the unsent bytes.              *)
(***************************************************************************)
io_send(b, cap, fin) ==
    LET nbytes == Min(cap, b.datasize - b.pos)
        b1 == [b EXCEPT !.pos = @ + nbytes]
    IN  IF b1.pos < b1.datasize /\ fin = "error"
        THEN [bp |-> b1, ret |-> -1, sent |-> SubSeq(b.buf, b.pos + 1, b1.pos),
              before |-> b1, shrunk |-> FALSE]
        ELSE [bp |-> IF empty(b1) THEN io_shrink(b1) ELSE b1,
              ret |-> nbytes, sent |-> SubSeq(b.buf, b.pos + 1, b1.pos),
              before |-> b1, shrunk |-> empty(b1)]

(***************************************************************************)
(* io_pipe.  A pipe_t is [offset, datasize, buf]; its from_fd is the file  *)
(* f = [size, off, open, nclose, nread, ndata]: the size and read offset   *)
(* of the source, whether the descriptor is open, and how often it was     *)
(* closed and read (ndata: reads that returned bytes).  Byte i of a file   *)
(* is FileByte(i).  rd is what read() meets ("ok" or "error"); sn is what  *)
(* send() returns: the bytes taken, or -1 (an error, or EAGAIN: the code   *)
(* does not look at errno).  In the result, unwatch tells that             *)
(* remove_read_fd(pp->from_fd) was called.                                 *)
(***************************************************************************)
FileByte(i) == i % 3

FileBytes(from, n) == [k \in 1..n |-> FileByte(from + k - 1)]

init_pipe == [offset |-> 0, datasize |-> 0, buf |-> << >>]

OpenFile(size) ==
    [size |-> size, off |-> 0, open |-> TRUE, nclose |-> 0, nread |-> 0,
     ndata |-> 0]

close(f) == [f EXCEPT !.open = FALSE, !.nclose = @ + 1]

\* io_pipe that tells Done as soon as the last bytes are loaded (a short
\* read), without the read that returns 0
io_pipe_shortread(p, f, rd, sn) ==
    IF p.datasize <= p.offset
    THEN LET n == Min(BUFSIZE, f.size - f.off)
             f1 == [f EXCEPT !.nread = @ + 1, !.off = @ + n,
                             !.ndata = @ + (IF n > 0 THEN 1 ELSE 0)]
         IN  IF n < BUFSIZE
             THEN [pipe |-> [p EXCEPT !.datasize = 0, !.offset = 0],
                   file |-> close(f1), ret |-> 1, sent |-> FileBytes(f.off, n),
                   unwatch |-> TRUE]
             ELSE [pipe |-> [p EXCEPT !.offset = n, !.datasize = n],
                   file |-> f1, ret |-> 0, sent |-> FileBytes(f.off, n),
                   unwatch |-> FALSE]
    ELSE [pipe |-> p, file |-> f, ret |-> 0, sent |-> << >>,
          unwatch |-> FALSE]

\* io_pipe that leaves the source open when send() fails
io_pipe_leaks(p, f, rd, sn) ==
    LET refill == p.datasize <= p.offset
        n == IF rd = "error" THEN -1 ELSE Min(BUFSIZE, f.size - f.off)
        f1 == IF refill
              THEN [f EXCEPT !.nread = @ + 1,
                             !.off = @ + (IF n > 0 THEN n ELSE 0),
                             !.ndata = @ + (IF n > 0 THEN 1 ELSE 0)]
              ELSE f
        p1 == IF refill
              THEN [p EXCEPT !.datasize = n,
                             !.buf = IF n > 0 THEN FileBytes(f.off, n) ELSE @]
              ELSE p
        p2 == IF refill THEN [p1 EXCEPT !.offset = 0] ELSE p1
        len == p2.datasize - p2.offset
        m == IF sn < 0 THEN -1 ELSE Min(sn, len)
    IN  IF refill /\ n = -1
        THEN [pipe |-> p1, file |-> close(f1), ret |-> -1, sent |-> << >>,
              unwatch |-> TRUE]
        ELSE IF refill /\ n = 0
        THEN [pipe |-> p1, file |-> close(f1), ret |-> 1, sent |-> << >>,
              unwatch |-> TRUE]
        ELSE IF m = -1
        THEN [pipe |-> p2, file |-> f1, ret |-> -1, sent |-> << >>,
              unwatch |-> TRUE]
        ELSE [pipe |-> [p2 EXCEPT !.offset = @ + m], file |-> f1, ret |-> 0,
              sent |-> Slice(p2.buf, p2.offset + 1, p2.offset + m),
              unwatch |-> FALSE]

io_pipe(p, f, rd, sn) ==
    LET refill == p.datasize <= p.offset
        n == IF rd = "error" THEN -1 ELSE Min(BUFSIZE, f.size - f.off)
        f1 == IF refill
              THEN [f EXCEPT !.nread = @ + 1,
                             !.off = @ + (IF n > 0 THEN n ELSE 0),
                             !.ndata = @ + (IF n > 0 THEN 1 ELSE 0)]
              ELSE f
        p1 == IF refill
              THEN [p EXCEPT !.datasize = n,
                             !.buf = IF n > 0 THEN FileBytes(f.off, n) ELSE @]
              ELSE p
        p2 == IF refill THEN [p1 EXCEPT !.offset = 0] ELSE p1
        len == p2.datasize - p2.offset
        m == IF sn < 0 THEN -1 ELSE Min(sn, len)
    IN  IF refill /\ n = -1
        THEN [pipe |-> p1, file |-> close(f1), ret |-> -1, sent |-> << >>,
              unwatch |-> TRUE]
        ELSE IF refill /\ n = 0
        THEN [pipe |-> p1, file |-> close(f1), ret |-> 1, sent |-> << >>,
              unwatch |-> TRUE]
        ELSE IF m = -1
        THEN [pipe |-> p2, file |-> close(f1), ret |-> -1, sent |-> << >>,
              unwatch |-> TRUE]
        ELSE [pipe |-> [p2 EXCEPT !.offset = @ + m], file |-> f1, ret |-> 0,
              sent |-> Slice(p2.buf, p2.offset + 1, p2.offset + m),
              unwatch |-> FALSE]

(***************************************************************************)
(* Specification SpecReqLine: parse_request_line on request lines built    *)
(* from up to MaxToks tokens.                                              *)
(***************************************************************************)
MaxToks == 4

unused == "unused"

new_request ==
    [method |-> << >>, uri |-> << >>, headers |-> << >>, content_len |-> 0,
     body |-> << >>]

LineToks ==
    { mGET, <<"g", "e", "t">>, <<"H", "e", "a", "d">>, mPOST,
      <<"P", "U", "T">>, <<"/", "x">>,
      <<"/", "i", "n", "d", "e", "x", ".", "h", "t", "m", "l">>,
      http_version, <<"h", "t", "t", "p", "/", "1", ".", "1">>,
      <<"H", "T", "T", "P", "/", "1", ".", "0">> }

LineSeps == { <<SP>>, <<SP, SP>>, <<TAB>> }

\* toks joined by sep, after lead
RECURSIVE JoinToks(_, _)
JoinToks(toks, sep) ==
    IF toks = << >> THEN << >>
    ELSE IF Len(toks) = 1 THEN toks[1]
    ELSE toks[1] \o sep \o JoinToks(Tail(toks), sep)

\* up to three tokens of LineToks, then the token "x" up to MaxToks tokens
ReqLines ==
    { lead \o JoinToks([i \in 1..n |-> IF i <= 3 THEN t[i] ELSE <<"x">>], sep) :
        t \in [1..3 -> LineToks], n \in 0..MaxToks, sep \in LineSeps,
        lead \in {<< >>, <<SP>>} }

InitReqLine ==
    /\ mode = "reqline"
    /\ input \in ReqLines
    /\ output = [done |-> FALSE]
    /\ bp = unused /\ bop = unused /\ pp = unused /\ client = unused
    /\ wire = unused /\ scen = unused /\ trace = unused /\ call = unused
    /\ context = unused

ParseRequestLine ==
    /\ mode = "reqline"
    /\ ~output.done
    /\ output' = [done |-> TRUE, res |-> parse_request_line(new_request, input)]
    /\ UNCHANGED <<mode, input, bufVars, pp, connVars>>

SpecReqLine == InitReqLine /\ [][ParseRequestLine]_vars

(***************************************************************************)
(* Specification SpecHeader: parse_header on every line of at most         *)
(* MaxLineLen bytes over a small alphabet, and on the lines of the         *)
(* documentation, for a request that holds no header or one header.        *)
(***************************************************************************)
MaxLineLen == 5

HeaderAlphabet == {"a", ":", SP, TAB}

kContentLength ==
    <<"C", "o", "n", "t", "e", "n", "t", "-", "L", "e", "n", "g", "t", "h">>

HeaderLines ==
    UNION { [1..n -> HeaderAlphabet] : n \in 1..MaxLineLen }
      \cup { kContentLength \o <<":", SP, "1", "0">>,
             <<":", SP, "1", "0">>,
             <<"X", ":">> }

OldHeaders == { << >>, <<[key |-> <<"H">>, val |-> <<"v">>]>> }

InitHeader ==
    /\ mode = "header"
    /\ input \in [line : HeaderLines, headers : OldHeaders]
    /\ output = [done |-> FALSE]
    /\ bp = unused /\ bop = unused /\ pp = unused /\ client = unused
    /\ wire = unused /\ scen = unused /\ trace = unused /\ call = unused
    /\ context = unused

ParseHeader ==
    /\ mode = "header"
    /\ ~output.done
    /\ output' = [done |-> TRUE,
                   res |-> parse_header([new_request EXCEPT
                                           !.headers = input.headers],
                                        input.line)]
    /\ UNCHANGED <<mode, input, bufVars, pp, connVars>>

SpecHeader == InitHeader /\ [][ParseHeader]_vars

(***************************************************************************)
(* Specification SpecBuf: one buf_t under io_recv, io_send, io_shrink and  *)
(* a reader that moves pos forward over received bytes.  Byte i of the     *)
(* stream the peer sends is StreamByte(i); at most MaxRecv bytes arrive,   *)
(* at most MaxChunk per readiness event.                                   *)
(***************************************************************************)
MaxRecv == 12
MaxChunk == 6

StreamByte(i) == i % 3

StreamBytes(from, n) == [k \in 1..n |-> StreamByte(from + k)]

\* bop.recv of a call other than io_recv; of an io_recv call: how the socket
\* ended (fin), how many bytes stayed in it, whether recv was given a
\* window of 0, and the steps of the loop
NoRecv == [fin |-> "none", left |-> 0, zerowin |-> FALSE, steps |-> << >>]

InitBuf ==
    /\ mode = "buf"
    /\ bp = init_buf
    /\ bop = [op |-> "init_buf", before |-> init_buf, ret |-> 0,
              shrunk |-> FALSE, count |-> 0, recv |-> NoRecv]
    /\ input = unused /\ output = unused /\ pp = unused /\ client = unused
    /\ wire = unused /\ scen = unused /\ trace = unused /\ call = unused
    /\ context = unused

BufRecv ==
    /\ mode = "buf"
    /\ \E n \in 0..MaxChunk, fin \in {"again", "closed", "error"} :
         /\ bop.count + n <= MaxRecv
         /\ LET r == io_recv(bp, StreamBytes(bop.count, n), fin)
            IN  /\ bp' = r.bp
                /\ bop' = [op |-> "io_recv", before |-> bp, ret |-> r.ret,
                           shrunk |-> FALSE,
                           count |-> bop.count + n - Len(r.left),
                           recv |-> [fin |-> fin, left |-> Len(r.left),
                                     zerowin |-> r.zerowin,
                                     steps |-> r.steps]]
    /\ UNCHANGED <<mode, fnVars, pp, connVars>>

BufSend ==
    /\ mode = "buf"
    /\ \E cap \in 0..MaxChunk, fin \in {"again", "error"} :
         LET r == io_send(bp, cap, fin)
         IN  /\ bp' = r.bp
             /\ bop' = [op |-> "io_send", before |-> r.before, ret |-> r.ret,
                        shrunk |-> r.shrunk, count |-> bop.count,
                        recv |-> NoRecv]
    /\ UNCHANGED <<mode, fnVars, pp, connVars>>

BufShrink ==
    /\ mode = "buf"
    /\ bp' = io_shrink(bp)
    /\ bop' = [op |-> "io_shrink", before |-> bp, ret |-> 0, shrunk |-> TRUE,
               count |-> bop.count, recv |-> NoRecv]
    /\ UNCHANGED <<mode, fnVars, pp, connVars>>

BufConsume ==
    /\ mode = "buf"
    /\ \E k \in 1..(bp.datasize - bp.pos) :
         /\ bp' = [bp EXCEPT !.pos = @ + k]
         /\ bop' = [op |-> "consume", before |-> bp, ret |-> k,
                    shrunk |-> FALSE, count |-> bop.count, recv |-> NoRecv]
    /\ UNCHANGED <<mode, fnVars, pp, connVars>>

NextBuf == BufRecv \/ BufSend \/ BufShrink \/ BufConsume

SpecBuf == InitBuf /\ [][NextBuf]_vars

\* the buffer as a connection uses it: io_shrink is called by io_send only
NextBufSend == BufRecv \/ BufSend \/ BufConsume

SpecBufSend == InitBuf /\ [][NextBufSend]_vars

(***************************************************************************)
(* Specification SpecPipe: io_pipe called again and again on a pipe over a *)
(* regular file of at most MaxFile bytes, until it returns 1 or -1.  When  *)
(* send() returns -1, errno is one of SendErrnos.  pp.last tells of the    *)
(* last call: the pipe and file before it, whether read() was called and   *)
(* failed, whether send() was called, what it returned and with which      *)
(* errno.                                                                  *)
(***************************************************************************)
MaxFile == 10

\* errno after a send() that returned -1: the socket would block, or the
\* peer is gone
SendErrnos == {"EAGAIN", "EPIPE"}

InitPipe ==
    /\ mode = "pipe"
    /\ \E size \in 0..MaxFile :
         pp = [pipe |-> init_pipe, file |-> OpenFile(size), ret |-> 0,
               ndone |-> 0, nsent |-> 0, inorder |-> TRUE,
               last |-> [op |-> "init_pipe", pipe |-> init_pipe,
                         file |-> OpenFile(size), readfailed |-> FALSE,
                         sendcalled |-> FALSE, sn |-> 0, errno |-> "none"]]
    /\ input = unused /\ output = unused /\ bp = unused /\ bop = unused
    /\ client = unused /\ wire = unused /\ scen = unused /\ trace = unused /\ call = unused
    /\ context = unused

\* one io_pipe call; the caller stops calling once it returned 1 or -1
PipeStep ==
    /\ mode = "pipe"
    /\ pp.ret = 0
    /\ \E rd \in {"ok", "error"}, sn \in -1..BUFSIZE, e \in SendErrnos :
         LET r == io_pipe(pp.pipe, pp.file, rd, sn)
             refill == pp.pipe.datasize <= pp.pipe.offset
             sendcalled == ~refill \/ (rd = "ok" /\ pp.file.off < pp.file.size)
         IN  pp' = [pipe |-> r.pipe, file |-> r.file, ret |-> r.ret,
                    ndone |-> pp.ndone + (IF r.ret = 1 THEN 1 ELSE 0),
                    nsent |-> pp.nsent + Len(r.sent),
                    inorder |-> pp.inorder
                                 /\ r.sent = FileBytes(pp.nsent, Len(r.sent)),
                    last |-> [op |-> "io_pipe", pipe |-> pp.pipe,
                              file |-> pp.file,
                              readfailed |-> refill /\ rd = "error",
                              sendcalled |-> sendcalled,
                              sn |-> IF sendcalled THEN sn ELSE 0,
                              errno |-> IF sendcalled /\ sn < 0 THEN e
                                        ELSE "none"]]
    /\ UNCHANGED <<mode, fnVars, bufVars, connVars>>

SpecPipe == InitPipe /\ [][PipeStep]_vars

(***************************************************************************)
(* The document root the handlers serve (www_folder, after realpath) and   *)
(* the files under it: what stat() and open() meet for each path.          *)
(***************************************************************************)
www_folder == <<"/", "w">>

index_html == <<"i", "n", "d", "e", "x", ".", "h", "t", "m", "l">>

uCss == <<"/", "a", ".", "c", "s", "s">>
uMissing == <<"/", "m">>
uDir == <<"/", "d">>
uIndexDir == <<"/", "i", "/">>
uLocked == <<"/", "p">>
uCgi == <<"/", "c">>

RegularFiles ==
    { www_folder \o uCss, www_folder \o uIndexDir \o index_html,
      www_folder \o uLocked }

Directories == { www_folder \o uDir, www_folder \o uIndexDir }

\* files that exist and that open() refuses
Unopenable == { www_folder \o uLocked }

\* files that open and on which lseek() fails
Unseekable == { }

SizeOnDisk(path) == IF path = www_folder \o uCss THEN 3 ELSE 1

stat(path) ==
    IF path \in RegularFiles THEN "file"
    ELSE IF path \in Directories THEN "dir"
    ELSE "none"

eHtml == <<"h", "t", "m", "l">>
eCss == <<"c", "s", "s">>
ePng == <<"p", "n", "g">>
eJpg == <<"j", "p", "g">>
eGif == <<"g", "i", "f">>

\* the scan of get_mimetype: from the last byte back to the first '.' or
\* '/' met, stopping at the first byte of the path
RECURSIVE ext_scan(_, _)
ext_scan(path, ext) ==
    IF ext # 1 /\ path[ext] # "." /\ path[ext] # "/"
    THEN ext_scan(path, ext - 1)
    ELSE ext

get_mimetype(path) ==
    LET dot == ext_scan(path, Len(path))
        ext == Slice(path, dot + 1, Len(path))
    IN  IF path[dot] = "."
        THEN IF strcicmp_eq(ext, eHtml) THEN "text/html"
             ELSE IF strcicmp_eq(ext, eCss) THEN "text/css"
             ELSE IF strcicmp_eq(ext, ePng) THEN "image/png"
             ELSE IF strcicmp_eq(ext, eJpg) THEN "image/jpg"
             ELSE IF strcicmp_eq(ext, eGif) THEN "image/gif"
             ELSE "application/octet-stream"
        ELSE "application/octet-stream"

(***************************************************************************)
(* An http_client_t is [req, in, status, pipe, out, files, closing]:       *)
(*   req     NULL or the request in flight                                 *)
(*   in      the input buf_t                                               *)
(*   status  "C_IDLE" or "C_PIPING"                                        *)
(*   pipe    NULL or [p, from_fd]: a pipe_t and its source descriptor      *)
(*   out     what was written for the peer, in order                       *)
(*   files   the descriptors open_file opened, each with its file state    *)
(*   closing whether http_parse told the caller to close the connection    *)
(***************************************************************************)
NoFiles == [fd \in {} |-> 0]

new_client ==
    [req |-> NULL, in |-> init_buf, status |-> "C_IDLE", pipe |-> NULL,
     out |-> << >>, files |-> NoFiles, closing |-> FALSE, closed |-> FALSE,
     drained |-> 0, piped |-> << >>]

OpenFds(c) == { fd \in DOMAIN c.files : c.files[fd].open }

\* open_file: the result is the client with its descriptor table, ret (the
\* new descriptor, or minus the status) and the path that was resolved.
\* realpath() of www_folder is taken to succeed.  path0 is www_folder and
\* the uri, path is path0 or the index.html of the directory path0, fd is
\* the descriptor open() gives.
open_resolved(c, path0, path, fd) ==
    IF stat(path0) = "none"
    THEN [client |-> c, ret |-> -NOT_FOUND, path |-> path]
    ELSE IF stat(path) = "none"
    THEN [client |-> c, ret |-> -NOT_FOUND, path |-> path]
    ELSE IF path \in Unopenable
    THEN [client |-> c, ret |-> -INTERNAL_SERVER_ERROR, path |-> path]
    ELSE IF path \in Unseekable
    THEN [client |-> [c EXCEPT !.files =
                          @ @@ (fd :> close(OpenFile(SizeOnDisk(path))))],
          ret |-> -INTERNAL_SERVER_ERROR, path |-> path]
    ELSE [client |-> [c EXCEPT !.files =
                          @ @@ (fd :> OpenFile(SizeOnDisk(path)))],
          ret |-> fd, path |-> path]

index_path(path0) ==
    IF stat(path0) = "dir"
    THEN IF path0[Len(path0)] = "/"
         THEN path0 \o index_html
         ELSE path0 \o <<"/">> \o index_html
    ELSE path0

open_path(c, path0) ==
    open_resolved(c, path0, index_path(path0), 3 + Cardinality(DOMAIN c.files))

open_file(c, uri) == open_path(c, www_folder \o uri)

kConnection == <<"C", "o", "n", "n", "e", "c", "t", "i", "o", "n">>
vClose == <<"c", "l", "o", "s", "e">>

\* get_request_header: the value of the first header of the list with this
\* key, NULL when there is none
get_request_header(req, key) ==
    IF \E i \in 1..Len(req.headers) : req.headers[i].key = key
    THEN Str(req.headers[CHOOSE i \in 1..Len(req.headers) :
                 /\ req.headers[i].key = key
                 /\ \A j \in 1..(i - 1) : req.headers[j].key # key].val)
    ELSE NULL

connection_close(req) ==
    LET v == get_request_header(req, kConnection)
    IN  v # NULL /\ strcicmp_eq(v.str, vClose)

\* send_response_line, send_header and client_write_string: one item of
\* client->out each
send_response_line(c, code) ==
    [c EXCEPT !.out = Append(@, [k |-> "status", name |-> "", value |-> "",
                                 num |-> code])]

send_header(c, name, value) ==
    [c EXCEPT !.out = Append(@, [k |-> "header", name |-> name,
                                 value |-> value, num |-> 0])]

send_header_int(c, name, n) ==
    [c EXCEPT !.out = Append(@, [k |-> "header", name |-> name,
                                 value |-> "%d", num |-> n])]

client_write_string(c, text) ==
    [c EXCEPT !.out = Append(@, [k |-> "text", name |-> "", value |-> text,
                                 num |-> 0])]

\* lines 135-145: the status line, the six headers and the blank line
send_headers(c, mimetype, size, closes) ==
    client_write_string(
      send_header(
        send_header(
          send_header(
            send_header(
              send_header_int(
                send_header(send_response_line(c, OK),
                            "Content-Type", mimetype),
                "Content-Length", size),
              "Date", "now"),
            "Last-Modified", "mtime"),
          "Server", "Liso/1.0"),
        "Connection", IF closes THEN "close" ELSE "keep-alive"),
      "\r\n")

\* lines 147-154 without the test of flag: a pipe is attached for HEAD too
attach_always(c, flag, fd) ==
    [client |-> [c EXCEPT !.pipe = [p |-> init_pipe, from_fd |-> fd]],
     ret |-> 0]

\* lines 147-154: GET attaches a pipe over fd, HEAD closes fd
attach_or_close(c, flag, fd) ==
    IF flag = "F_GET"
    THEN [client |-> [c EXCEPT !.pipe = [p |-> init_pipe, from_fd |-> fd]],
          ret |-> 0]
    ELSE [client |-> [c EXCEPT !.files[fd] = close(@)], ret |-> 0]

\* internal_handler once open_file returned f, that writes the status line
\* before it looks at what open_file returned
respond_eager(flag, f, closes) ==
    IF f.ret < 0
    THEN [client |-> send_response_line(f.client, OK), ret |-> -f.ret]
    ELSE attach_or_close(send_headers(f.client, get_mimetype(f.path),
                                      SizeOnDisk(f.path), closes),
                         flag, f.ret)

\* internal_handler once open_file returned f
respond(flag, f, closes) ==
    IF f.ret < 0
    THEN [client |-> f.client, ret |-> -f.ret]
    ELSE attach_or_close(send_headers(f.client, get_mimetype(f.path),
                                      SizeOnDisk(f.path), closes),
                         flag, f.ret)

internal_handler(c, flag) ==
    respond(flag, open_file(c, c.req.uri), connection_close(c.req))

handle_get(c) == internal_handler([c EXCEPT !.status = "C_PIPING"], "F_GET")

handle_head(c) == internal_handler([c EXCEPT !.status = "C_IDLE"], "F_HEAD")

handle_post(c) == [client |-> c, ret |-> NOT_IMPLEMENTED]

(***************************************************************************)
(* client_readline(client, line): the next line of the input buffer.       *)
(* With a line feed among the unread bytes, the line is what precedes it   *)
(* (less a carriage return before the line feed), pos moves past the line  *)
(* feed and the result is the number of bytes consumed.  With none, the    *)
(* result is 0 (-1 once MAXBUF bytes are waiting or the line does not fit  *)
(* in MAXBUF), pos stays, and `line`, an uninitialised array of the        *)
(* caller, holds g: nothing, or bytes that are not a line.                 *)
(***************************************************************************)
MAXBUF == 32

client_readline(in, g) ==
    LET unread == Slice(in.buf, in.pos + 1, in.datasize)
        k == strchr(unread, LF)
        raw == Slice(unread, 1, k - 1)
        line == IF raw # << >> /\ raw[Len(raw)] = CR
                THEN Slice(raw, 1, Len(raw) - 1)
                ELSE raw
    IN  IF k = 0
        THEN [ret |-> IF Len(unread) >= MAXBUF THEN -1 ELSE 0,
              line |-> g, in |-> in]
        ELSE IF Len(line) >= MAXBUF
        THEN [ret |-> -1, line |-> g, in |-> in]
        ELSE [ret |-> k, line |-> line, in |-> [in EXCEPT !.pos = @ + k]]

\* the values `line` may hold when client_readline found no line
StaleLines == { << >>, <<"?">> }

IsDigit(c) == c \in {"0", "1", "2", "3", "4", "5", "6", "7", "8", "9"}

DigitVal(c) ==
    CASE c = "0" -> 0 [] c = "1" -> 1 [] c = "2" -> 2 [] c = "3" -> 3
      [] c = "4" -> 4 [] c = "5" -> 5 [] c = "6" -> 6 [] c = "7" -> 7
      [] c = "8" -> 8 [] c = "9" -> 9

\* the number a string of digits writes
RECURSIVE strtol(_)
strtol(s) ==
    IF s = << >> THEN 0
    ELSE 10 * strtol(Slice(s, 1, Len(s) - 1)) + DigitVal(s[Len(s)])

\* the largest int, of an int scaled down to 8 bits
INT_MAX == 127

\* atoi on a string of digits.  The result is an int; for a number above
\* INT_MAX the behaviour is undefined and o is what the C library makes of
\* it: "wrap" (the low bits of the number, as a signed int) or "max"
\* (INT_MAX).
AtoiOverflows == {"wrap", "max"}

atoi(s, o) ==
    LET v == strtol(s)
        low == v % (2 * (INT_MAX + 1))
    IN  IF v <= INT_MAX THEN v
        ELSE IF o = "max" THEN INT_MAX
        ELSE IF low > INT_MAX THEN low - 2 * (INT_MAX + 1) ELSE low

(***************************************************************************)
(* http_parse.  The result is [client, ret, ev]: the client after the      *)
(* call, the value returned and the events of the call in order, each      *)
(* [e, h, req, st]: a handler h called on request req returning st, or     *)
(* end_request called with status st.                                      *)
(***************************************************************************)
Returned(c, r, ev) == [client |-> c, ret |-> r, ev |-> ev]

HandlerEvent(h, req, st) == [e |-> "handler", h |-> h, req |-> req, st |-> st]

\* end_request: the error response is written, the request is dropped and
\* the caller is told to close the connection
end_request(c, status, ev) ==
    Returned([send_response_line(c, status) EXCEPT !.req = NULL],
             -1,
             Append(ev, [e |-> "end_request", h |-> "", req |-> NULL,
                         st |-> status]))

\* the handler returned 0 and the request is left in client->req
request_done_keeps(c, ev) ==
    Returned(c, IF connection_close(c.req) THEN -1 ELSE 0, ev)

\* lines 174-183 and 207-216: the handler returned 0
request_done(c, ev) ==
    Returned([c EXCEPT !.req = NULL],
             IF connection_close(c.req) THEN -1 ELSE 0,
             ev)

\* lines 200-205 with the body at hand: handle_post, which never returns 0
post_called(c, hp, ev) ==
    IF hp.ret # 0
    THEN end_request(hp.client, hp.ret,
                     Append(ev, HandlerEvent("POST", c.req, hp.ret)))
    ELSE request_done(hp.client,
                      Append(ev, HandlerEvent("POST", c.req, hp.ret)))

post_body(c, ev) == post_called(c, handle_post(c), ev)

\* lines 197-225 with a body test that is off by one
body_stage_early(c, ev) ==
    IF c.req.content_len > 0
    THEN IF c.in.datasize - c.in.pos >= c.req.content_len - 1
         THEN post_body([c EXCEPT
                           !.req.body = Slice(c.in.buf, c.in.pos + 1,
                                              Min(c.in.pos + c.req.content_len,
                                                  c.in.datasize)),
                           !.in.pos = @ + c.req.content_len],
                        ev)
         ELSE Returned(c, 0, ev)
    ELSE Returned(c, 0, ev)

\* lines 197-225
body_stage(c, ev) ==
    IF c.req.content_len > 0
    THEN IF c.in.datasize - c.in.pos >= c.req.content_len
         THEN post_body([c EXCEPT
                           !.req.body = Slice(c.in.buf, c.in.pos + 1,
                                              c.in.pos + c.req.content_len),
                           !.in.pos = @ + c.req.content_len],
                        ev)
         ELSE Returned(c, 0, ev)
    ELSE Returned(c, 0, ev)

\* a handler h was called on req and returned r
Called(h, req, r, ev) ==
    [client |-> r.client, ret |-> r.ret,
     ev |-> Append(ev, HandlerEvent(h, req, r.ret))]

\* lines 171-184: s.ret is the local ret
after_handlers(s) ==
    IF s.ret # 0
    THEN end_request(s.client, s.ret, s.ev)
    ELSE request_done(s.client, s.ev)

\* lines 156-166: buf is the Content-Length header of a POST
post_length(c, buf, ev, o) ==
    IF buf = NULL
    THEN end_request(c, LENGTH_REQUIRED, ev)
    ELSE IF Len(buf.str) = 0
    THEN Returned(c, BAD_REQUEST, ev)
    ELSE IF \E i \in 1..Len(buf.str) : ~IsDigit(buf.str[i])
    THEN end_request(c, BAD_REQUEST, ev)
    ELSE body_stage([c EXCEPT !.req.content_len = atoi(buf.str, o)], ev)

\* lines 155-184: after the GET test
after_get(s, o) ==
    IF strcicmp_eq(s.client.req.method, mPOST)
    THEN post_length(s.client,
                     get_request_header(s.client.req, kContentLength), s.ev, o)
    ELSE after_handlers(
           IF strcicmp_eq(s.client.req.method, mHEAD)
           THEN Called("HEAD", s.client.req, handle_head(s.client), s.ev)
           ELSE s)

\* lines 152-184: the empty line that ends the headers.  ret is the local
\* variable as the loop left it.
header_end(c, ret, ev, o) ==
    after_get(IF strcicmp_eq(c.req.method, mGET)
              THEN Called("GET", c.req, handle_get(c), ev)
              ELSE [client |-> c, ret |-> ret, ev |-> ev],
              o)

\* lines 150-191: the loop over the header lines; rl is what client_readline
\* returned and ph what parse_header returned
RECURSIVE header_loop(_, _, _, _, _)

header_parsed(c, ph, g, ev, o) ==
    IF ph.ret = -1
    THEN end_request(c, BAD_REQUEST, ev)
    ELSE header_loop([c EXCEPT !.req = ph.req], ph.ret, g, ev, o)

header_line(c, ret, rl, g, ev, o) ==
    IF rl.ret <= 0 THEN body_stage(c, ev)
    ELSE IF Len(rl.line) = 0
    THEN header_end([c EXCEPT !.in = rl.in], ret, ev, o)
    ELSE header_parsed([c EXCEPT !.in = rl.in], parse_header(c.req, rl.line),
                       g, ev, o)

header_loop(c, ret, g, ev, o) ==
    IF c.req.content_len # -1
    THEN body_stage(c, ev)
    ELSE header_line(c, ret, client_readline(c.in, g), g, ev, o)

\* line 123-127: the new request
with_request(c, in) ==
    [c EXCEPT !.in = in, !.req = [new_request EXCEPT !.content_len = -1]]

\* lines 140-141: pr is what parse_request_line returned
request_parsed(c, pr, g, o) ==
    IF pr.ret > 0
    THEN end_request([c EXCEPT !.req = pr.req], pr.ret, << >>)
    ELSE header_loop([c EXCEPT !.req = pr.req], pr.ret, g, << >>, o)

\* lines 119-142: rl is what client_readline returned
request_line(c, rl, g, o) ==
    IF Len(rl.line) = 0
    THEN Returned([c EXCEPT !.in = rl.in], 0, << >>)
    ELSE IF rl.ret = 0
    THEN Returned(with_request(c, rl.in), 0, << >>)
    ELSE IF rl.ret < 0
    THEN end_request(with_request(c, rl.in), BAD_REQUEST, << >>)
    ELSE request_parsed(with_request(c, rl.in),
                        parse_request_line(with_request(c, rl.in).req, rl.line),
                        g, o)

\* http_parse that reads a request line whether or not a request is in
\* flight
http_parse_restarts(c, g, u, o) ==
    request_line(c, client_readline(c.in, g), g, o)

\* http_parse(client).  g is what `line` holds when client_readline finds
\* no line; u is the value of the uninitialised local `ret`, read only when
\* the headers of a request in flight end with no handler called; o is what
\* atoi makes of a number above INT_MAX.
http_parse(c, g, u, o) ==
    IF c.req = NULL
    THEN request_line(c, client_readline(c.in, g), g, o)
    ELSE header_loop(c, u, g, << >>, o)

(***************************************************************************)
(* Specification Spec: one connection.  The peer sends the requests of a   *)
(* scenario, well-formed, as bytes that arrive in fragments of any size;   *)
(* the event loop calls io_recv when bytes arrived, http_parse at any time *)
(* while no pipe is attached and the connection is not to be closed,       *)
(* io_pipe while a pipe is attached, and closes the connection last.       *)
(***************************************************************************)
CRLF == <<CR, LF>>

Hdr(k, v) == [key |-> k, val |-> v]

Req(m, u, h, b) == [method |-> m, uri |-> u, hdrs |-> h, body |-> b]

RECURSIVE HeaderText(_)
HeaderText(hs) ==
    IF hs = << >> THEN << >>
    ELSE hs[1].key \o <<":", SP>> \o hs[1].val \o CRLF \o HeaderText(Tail(hs))

\* the bytes of a request on the wire
Wire(r) ==
    r.method \o <<SP>> \o r.uri \o <<SP>> \o http_version \o CRLF
      \o HeaderText(r.hdrs) \o CRLF \o r.body

RECURSIVE WireOf(_)
WireOf(rs) == IF rs = << >> THEN << >> ELSE Wire(rs[1]) \o WireOf(Tail(rs))

hHost == Hdr(<<"H", "o", "s", "t">>, <<"h">>)
hClose == Hdr(kConnection, vClose)

rGet == Req(mGET, uCss, << >>, << >>)
rGetHost == Req(<<"g", "e", "t">>, uCss, <<hHost>>, << >>)
rGetClose == Req(mGET, uCss, <<hHost, hClose>>, << >>)
rGetMissing == Req(mGET, uMissing, << >>, << >>)
rGetColon == Req(mGET, <<"/", "m", ":", "x">>, << >>, << >>)
rGetDir == Req(mGET, uDir, << >>, << >>)
rGetIndex == Req(mGET, uIndexDir, << >>, << >>)
rGetLocked == Req(mGET, uLocked, << >>, << >>)
rHead == Req(mHEAD, uCss, << >>, << >>)
rPost2 == Req(mPOST, uCgi, <<Hdr(kContentLength, <<"2">>)>>, <<"x", "y">>)
rPost0 == Req(mPOST, uCgi, <<Hdr(kContentLength, <<"0">>)>>, << >>)
rPostNoLen == Req(mPOST, uCgi, <<hHost>>, << >>)
rPostBadLen == Req(mPOST, uCgi, <<Hdr(kContentLength, <<"2", "x">>)>>, << >>)

\* a header line of more than MAXBUF bytes
hLong == Hdr(<<"X">>, [i \in 1..MAXBUF |-> "a"])
rGetLong == Req(mGET, uCss, <<hLong>>, << >>)

\* a Content-Length of 2 * (INT_MAX + 1) - 1, all bits of an unsigned int
vHuge == <<"2", "5", "5">>
rPostHuge == Req(mPOST, uCgi, <<Hdr(kContentLength, vHuge)>>, <<"x", "y">>)

FirstRequests ==
    { rGet, rGetHost, rGetClose, rGetMissing, rGetColon, rGetDir, rGetIndex,
      rGetLocked, rHead, rPost2, rPost0, rPostNoLen, rPostBadLen, rGetLong,
      rPostHuge }

Scenarios ==
    { <<r>> : r \in FirstRequests }
      \cup { <<r1, r2>> : r1 \in {rGet, rHead}, r2 \in {rGet, rGetMissing, rPost2} }

\* what the uninitialised local `ret` of http_parse may hold
UninitRets == { 0, INTERNAL_SERVER_ERROR }

(***************************************************************************)
(* The select context of io.c: the descriptors watched for reading and for *)
(* writing (read_fds_cpy, write_fds_cpy) and fd_max.                       *)
(***************************************************************************)
init_select_context ==
    [read_fds_cpy |-> {}, write_fds_cpy |-> {}, fd_max |-> 0]

add_read_fd(ctx, fd) ==
    [ctx EXCEPT !.read_fds_cpy = @ \cup {fd},
                !.fd_max = IF fd > @ THEN fd ELSE @]

\* remove_read_fd that clears the whole set (FD_ZERO for FD_CLR)
remove_read_fd_zero(ctx, fd) == [ctx EXCEPT !.read_fds_cpy = {}]

remove_read_fd(ctx, fd) == [ctx EXCEPT !.read_fds_cpy = @ \ {fd}]

add_write_fd(ctx, fd) ==
    [ctx EXCEPT !.write_fds_cpy = @ \cup {fd},
                !.fd_max = IF fd > @ THEN fd ELSE @]

remove_write_fd(ctx, fd) == [ctx EXCEPT !.write_fds_cpy = @ \ {fd}]

\* the descriptor of the connection's socket
sock == 2

Init ==
    /\ mode = "conn"
    /\ scen \in Scenarios
    /\ wire = WireOf(scen)
    /\ client = new_client
    /\ trace = << >>
    /\ context = add_read_fd(init_select_context, sock)
    /\ call = [op |-> "accept", before |-> new_client, ret |-> 0, ev |-> << >>,
               paired |-> TRUE, ctx |-> context]
    /\ input = unused /\ output = unused /\ bp = unused /\ bop = unused
    /\ pp = unused

\* the socket is readable: io_recv takes the n bytes that arrived
ConnRecv ==
    /\ mode = "conn"
    /\ ~client.closing
    /\ \E n \in 1..Len(wire) :
         LET r == io_recv(client.in, SubSeq(wire, 1, n), "again")
         IN  /\ client' = [client EXCEPT !.in = r.bp]
             /\ wire' = r.left \o SubSeq(wire, n + 1, Len(wire))
             /\ call' = [op |-> "io_recv", before |-> new_client,
                         ret |-> r.ret, ev |-> << >>,
                         paired |-> call.paired, ctx |-> context]
    /\ UNCHANGED <<mode, fnVars, bufVars, pp, scen, trace, context>>

ConnParse ==
    /\ mode = "conn"
    /\ ~client.closing
    /\ client.pipe = NULL
    /\ \E g \in StaleLines, u \in UninitRets, o \in AtoiOverflows :
         LET r == http_parse(client, g, u, o)
         IN  /\ client' = [r.client EXCEPT !.closing = (r.ret = -1)]
             /\ trace' = IF r.ev = << >> THEN trace ELSE Append(trace, r.ev)
             /\ call' = [op |-> "http_parse", before |-> client,
                         ret |-> r.ret, ev |-> r.ev,
                         paired |-> call.paired /\ call.op = "io_recv",
                         ctx |-> context]
    /\ UNCHANGED <<mode, fnVars, bufVars, pp, scen, wire, context>>

\* the socket is writable and client->out holds bytes not sent yet: the
\* event loop sends them
ConnDrain ==
    /\ mode = "conn"
    /\ ~client.closed
    /\ client.drained < Len(client.out)
    /\ client' = [client EXCEPT !.drained = Len(client.out)]
    /\ call' = [op |-> "drain", before |-> new_client, ret |-> 0,
                ev |-> << >>, paired |-> call.paired, ctx |-> context]
    /\ UNCHANGED <<mode, fnVars, bufVars, pp, scen, wire, trace, context>>

\* the socket is writable while a pipe is attached and the headers are
\* sent: one io_pipe call.  read() succeeds or fails; send() takes all it is
\* given or returns -1.  On 1 the pipe is dropped, on -1 the connection is
\* to be closed as well.
ConnPipe ==
    /\ mode = "conn"
    /\ client.pipe # NULL
    /\ client.drained = Len(client.out)
    /\ \E rd \in {"ok", "error"}, sn \in {-1, BUFSIZE} :
         LET fd == client.pipe.from_fd
             r == io_pipe(client.pipe.p, client.files[fd], rd, sn)
         IN  /\ client' = [client EXCEPT
                             !.files[fd] = r.file,
                             !.pipe = IF r.ret = 0
                                      THEN [p |-> r.pipe, from_fd |-> fd]
                                      ELSE NULL,
                             !.status = IF r.ret = 0 THEN @ ELSE "C_IDLE",
                             !.piped = IF r.ret = 0 THEN @ ELSE Append(@, r.ret),
                             !.closing = @ \/ r.ret = -1]
             /\ context' = IF r.unwatch THEN remove_read_fd(context, fd)
                           ELSE context
             /\ call' = [op |-> "io_pipe", before |-> client,
                         ret |-> r.ret, ev |-> << >>,
                         paired |-> call.paired, ctx |-> context]
    /\ UNCHANGED <<mode, fnVars, bufVars, pp, scen, wire, trace>>

\* the event loop, while a pipe is attached, watches the source of the pipe
\* for reading or the socket for writing
EvWatch ==
    /\ mode = "conn"
    /\ client.pipe # NULL
    /\ \E ctx \in { add_read_fd(context, client.pipe.from_fd),
                    add_write_fd(context, sock) } :
         /\ ctx # context
         /\ context' = ctx
    /\ call' = [op |-> "watch", before |-> new_client, ret |-> 0,
                ev |-> << >>, paired |-> call.paired, ctx |-> context]
    /\ UNCHANGED <<mode, fnVars, bufVars, pp, scen, wire, trace, client>>

\* an event loop that closes the connection as soon as http_parse told it to
ConnClose_atonce ==
    /\ mode = "conn"
    /\ client.closing
    /\ ~client.closed
    /\ client' = [client EXCEPT !.closed = TRUE]
    /\ context' = remove_write_fd(remove_read_fd(context, sock), sock)
    /\ call' = [op |-> "close", before |-> new_client, ret |-> 0,
                ev |-> << >>, paired |-> call.paired, ctx |-> context]
    /\ UNCHANGED <<mode, fnVars, bufVars, pp, scen, wire, trace>>

\* the event loop closes a connection that is to be closed once its
\* response is sent: client->out is drained and no pipe is attached
ConnClose ==
    /\ mode = "conn"
    /\ client.closing
    /\ ~client.closed
    /\ client.pipe = NULL
    /\ client.drained = Len(client.out)
    /\ client' = [client EXCEPT !.closed = TRUE]
    /\ context' = remove_write_fd(remove_read_fd(context, sock), sock)
    /\ call' = [op |-> "close", before |-> new_client, ret |-> 0,
                ev |-> << >>, paired |-> call.paired, ctx |-> context]
    /\ UNCHANGED <<mode, fnVars, bufVars, pp, scen, wire, trace>>

Next == ConnRecv \/ ConnParse \/ ConnDrain \/ ConnPipe \/ EvWatch \/ ConnClose

Spec == Init /\ [][Next]_vars

(***************************************************************************)
(* Claims                                                                  *)
(***************************************************************************)

\* C2: in every state a buf_t reaches from init_buf under io_recv, io_send,
\* io_shrink and a reader that advances pos up to datasize,
\* 0 <= pos <= datasize <= bufsize.
C2_CapacityInvariant ==
    mode = "buf" =>
        /\ 0 <= bp.pos
        /\ bp.pos <= bp.datasize
        /\ bp.datasize <= bp.bufsize
        /\ Len(bp.buf) = bp.datasize

\* the buffer grew in io_recv, was read, and io_send shrank it with bytes
\* still unsent
C2_Witness ==
    /\ mode = "buf"
    /\ bop.op = "io_send"
    /\ bop.shrunk
    /\ bop.before.bufsize > BUFSIZE
    /\ bop.before.pos > 0
    /\ bp.datasize > 0

\* C3: after io_shrink (called directly or from io_send) the buffer holds at
\* [0, datasize') the bytes that were at [pos, datasize), pos is 0,
\* datasize' = datasize - pos, bufsize' = bufsize - floor(freespace / 2) with
\* freespace = bufsize - datasize + pos, and bufsize' >= datasize'.
C3_ShrinkKeepsUnread ==
    (mode = "buf" /\ bop.shrunk) =>
        LET o == bop.before
            unread == [k \in 1..(o.datasize - o.pos) |-> o.buf[o.pos + k]]
            freespace == o.bufsize - o.datasize + o.pos
        IN  /\ bp.datasize = o.datasize - o.pos
            /\ bp.pos = 0
            /\ \A k \in 1..bp.datasize : bp.buf[k] = unread[k]
            /\ 2 * (o.bufsize - bp.bufsize) <= freespace
            /\ 2 * (o.bufsize - bp.bufsize) + 1 >= freespace
            /\ bp.bufsize >= bp.datasize

\* a shrink that had to move unread bytes and gave memory back
C3_Witness ==
    /\ mode = "buf"
    /\ bop.shrunk
    /\ bop.before.pos % 3 # 0
    /\ bop.before.datasize - bop.before.pos >= 2
    /\ bp.bufsize < bop.before.bufsize

\* The tokens of a line, stated without the scanner: a token starts at a
\* byte that is not white space and follows white space or starts the line.
TokStarts(s) ==
    { i \in 1..Len(s) : ~IsSpace(s[i]) /\ (i = 1 \/ IsSpace(s[i - 1])) }

NthTok(s, k) ==
    LET b == CHOOSE i \in TokStarts(s) :
                 Cardinality({j \in TokStarts(s) : j < i}) = k - 1
        e == CHOOSE j \in b..Len(s) :
                 /\ \A m \in b..j : ~IsSpace(s[m])
                 /\ (j = Len(s) \/ IsSpace(s[j + 1]))
    IN  SubSeq(s, b, e)

Folded(s) == [i \in 1..Len(s) |-> tolower(s[i])]

\* C4: parse_request_line gives 400 for a line of fewer than 3 tokens, else
\* 405 when the first token is not GET, HEAD or POST in any letter case, else
\* 505 when the third token is not the configured version in any letter
\* case, else 0 with method, uri and version holding the three tokens.
C4_RequestLineClassified ==
    (mode = "reqline" /\ output.done) =>
        LET line == input
            res == output.res
        IN  IF Cardinality(TokStarts(line)) < 3
            THEN res.ret = BAD_REQUEST
            ELSE IF Folded(NthTok(line, 1)) \notin
                        {Folded(mGET), Folded(mHEAD), Folded(mPOST)}
            THEN res.ret = METHOD_NOT_ALLOWED
            ELSE IF Folded(NthTok(line, 3)) # Folded(http_version)
            THEN res.ret = HTTP_VERSION_NOT_SUPPORTED
            ELSE /\ res.ret = 0
                 /\ res.req.method = NthTok(line, 1)
                 /\ res.req.uri = NthTok(line, 2)
                 /\ res.version = NthTok(line, 3)

\* a line accepted with a method and a version in another letter case, a
\* run of two spaces between the tokens and a fourth token
C4_Witness ==
    /\ mode = "reqline"
    /\ output.done
    /\ output.res.ret = 0
    /\ output.res.req.method = <<"g", "e", "t">>
    /\ output.res.version # http_version
    /\ Cardinality(TokStarts(input)) = 4
    /\ \E i \in 1..(Len(input) - 1) : input[i] = SP /\ input[i + 1] = SP

\* s without its leading and trailing spaces, stated without the loop
Stripped(s) ==
    LET keep == { i \in 1..Len(s) : s[i] # SP }
    IN  IF keep = {} THEN << >>
        ELSE SubSeq(s, CHOOSE i \in keep : \A j \in keep : i <= j,
                       CHOOSE i \in keep : \A j \in keep : i >= j)

\* C5: parse_header succeeds on a non-empty line exactly when the line has a
\* ':' that is neither its first nor its last byte and the text before the
\* first ':' and the text after it are not empty once their leading and
\* trailing spaces (not tabs) are stripped; then exactly that key and value
\* are added as one header, and on failure the header list is unchanged.
C5_HeaderLineParsed ==
    (mode = "header" /\ output.done /\ Len(input.line) > 0) =>
        LET line == input.line
            res == output.res
            colons == { i \in 1..Len(line) : line[i] = ":" }
            c == CHOOSE i \in colons : \A j \in colons : i <= j
            key == Stripped(Slice(line, 1, c - 1))
            val == Stripped(Slice(line, c + 1, Len(line)))
            good == /\ \E i \in colons : i # 1 /\ i # Len(line)
                    /\ key # << >>
                    /\ val # << >>
        IN  /\ (res.ret = 0) <=> good
            /\ res.ret \in {0, -1}
            /\ good => res.req.headers =
                           <<[key |-> key, val |-> val]>> \o input.headers
            /\ ~good => res.req.headers = input.headers

\* a header whose key and value both lost spaces, added in front of a
\* header the request already held
C5_Witness ==
    /\ mode = "header"
    /\ output.done
    /\ output.res.ret = 0
    /\ Len(output.res.req.headers) = 2
    /\ input.line[1] = SP
    /\ input.line[Len(input.line)] = SP
    /\ Len(output.res.req.headers[1].key) + Len(output.res.req.headers[1].val)
           = Len(input.line) - 3

CeilDiv(a, b) == (a + b - 1) \div b

\* C10 as claimed: when io_pipe returns 1 it has issued exactly
\* ceil(N / BUFSIZE) read calls on the source.
C10_ReadsAsClaimed ==
    (mode = "pipe" /\ pp.ret = 1) =>
        pp.file.nread = CeilDiv(pp.file.size, BUFSIZE)

\* C10 amended: over a regular file of N bytes and a destination that takes
\* writes, io_pipe issues ceil(N / BUFSIZE) reads that return bytes and one
\* more read, which returns 0; on that read it returns 1, once, with the
\* source closed once and all N bytes sent in order; every call before
\* returned 0 and left the source open.
C10_ReadsAmended ==
    /\ (mode = "pipe" /\ pp.ret = 1) =>
           /\ pp.file.ndata = CeilDiv(pp.file.size, BUFSIZE)
           /\ pp.file.nread = CeilDiv(pp.file.size, BUFSIZE) + 1
           /\ pp.ndone = 1
           /\ ~pp.file.open
           /\ pp.file.nclose = 1
           /\ pp.nsent = pp.file.size
           /\ pp.inorder
    /\ (mode = "pipe" /\ pp.ret = 0) =>
           /\ pp.file.open
           /\ pp.file.nclose = 0
           /\ pp.ndone = 0
           /\ pp.file.ndata <= CeilDiv(pp.file.size, BUFSIZE)

\* Done for a file that needs several refills, the last one short
C10_Witness ==
    /\ mode = "pipe"
    /\ pp.ret = 1
    /\ pp.file.size > BUFSIZE
    /\ pp.file.size % BUFSIZE # 0
    /\ pp.nsent = pp.file.size

\* C14 as claimed: in io_recv, after each receive that returned bytes the
\* buffer grows exactly when capacity - size < capacity / 2, capacity being
\* the buffer's current bufsize, and then the new capacity is 1.5 times the
\* old one rounded up; otherwise the capacity is unchanged.
C14_GrowthPolicy ==
    (mode = "buf" /\ bop.op = "io_recv") =>
        \A i \in 1..Len(bop.recv.steps) :
            LET st == bop.recv.steps[i]
            IN  IF 2 * (st.cap - st.size) < st.cap
                THEN st.newcap = (3 * st.cap + 1) \div 2
                ELSE st.newcap = st.cap

\* C15 as claimed: io_recv returns 0 exactly when a recv call returned zero
\* length; when the socket would block it returns a positive value, also
\* when the buffer is empty and nothing was received; on an error it
\* returns a negative value.
C15_RecvOutcomes ==
    (mode = "buf" /\ bop.op = "io_recv") =>
        LET zero == bop.recv.zerowin
                       \/ (bop.recv.fin = "closed" /\ bop.recv.left = 0)
        IN  /\ (bop.ret = 0) <=> zero
            /\ (~zero /\ bop.recv.fin = "again") => bop.ret >= 1
            /\ (~zero /\ bop.recv.fin = "error") => bop.ret < 0

\* C11 as claimed: an io_pipe call whose send() met a socket that would
\* block (-1 with EAGAIN) returns 0 and leaves the source open with the
\* loaded chunk still to be sent; io_pipe returns -1 with the source closed
\* only after a read error or a send error other than would-block.
C11_WouldBlockContinues ==
    mode = "pipe" =>
        /\ (pp.last.sendcalled /\ pp.last.sn = -1 /\ pp.last.errno = "EAGAIN")
           => /\ pp.ret = 0
              /\ pp.file.open
              /\ pp.file.nclose = 0
              /\ pp.pipe.datasize > pp.pipe.offset
        /\ pp.ret = -1
           => \/ pp.last.readfailed
              \/ pp.last.sendcalled /\ pp.last.sn = -1
                                    /\ pp.last.errno # "EAGAIN"

(***************************************************************************)
(* Claims about the connection                                             *)
(***************************************************************************)
Unread(in) == Slice(in.buf, in.pos + 1, in.datasize)

\* http_parse called once on a new connection whose input buffer holds all
\* the bytes of request r
OneShot(r) ==
    http_parse([new_client EXCEPT
                  !.in = io_recv(init_buf, Wire(r), "again").bp],
               << >>, 0, "wrap")

\* C1: however the bytes of a well-formed request are split over io_recv
\* calls, with http_parse called in between, the first call that does
\* something does what the single call on the whole request does: the same
\* handler on the same Request (method, uri, headers, content_len, body) with
\* the same result; and a call made with the whole request in the buffer
\* does it at the latest.  Only runs in which every http_parse call came
\* right after an io_recv call count (call.paired).
C1_FragmentationInvariance ==
    (mode = "conn" /\ call.paired) =>
        /\ trace # << >> => trace[1] = OneShot(scen[1]).ev
        /\ ( /\ call.op = "http_parse"
             /\ call.before.in.datasize >= Len(Wire(scen[1]))
             /\ OneShot(scen[1]).ev # << >> ) => trace # << >>

\* C6: while a request in flight has content_len = n >= 0 and fewer than n
\* unread bytes are in the input buffer, an http_parse call returns 0, calls
\* no handler, leaves pos and the request as they were; and whenever
\* handle_post is called the body it is given holds content_len bytes.
C6_NoEarlyPost ==
    mode = "conn" =>
        /\ ( /\ call.op = "http_parse"
             /\ call.before.req # NULL
             /\ call.before.req.content_len >= 0
             /\ Len(Unread(call.before.in)) < call.before.req.content_len )
           => /\ call.ret = 0
              /\ call.ev = << >>
              /\ client.in.pos = call.before.in.pos
              /\ client.req = call.before.req
        /\ \A i \in 1..Len(trace) : \A j \in 1..Len(trace[i]) :
             trace[i][j].h = "POST" =>
                 /\ Len(trace[i][j].req.body) = trace[i][j].req.content_len
                 /\ \E k \in 1..Len(scen) : trace[i][j].req.body = scen[k].body

\* a POST waiting for a body of 2 bytes was parsed again with 1 byte there
C6_Witness ==
    /\ mode = "conn"
    /\ call.op = "http_parse"
    /\ call.before.req # NULL
    /\ call.before.req.content_len = 2
    /\ Len(Unread(call.before.in)) = 1
    /\ call.ret = 0

\* C7 as claimed: once a request in flight has content_len = n >= 0 and at
\* least n unread bytes are in the input buffer, the next http_parse call
\* calls handle_post on the body, moves pos by n and ends the request with
\* 501.
C7_PostDispatched ==
    ( /\ mode = "conn"
      /\ call.op = "http_parse"
      /\ call.before.req # NULL
      /\ call.before.req.content_len >= 0
      /\ Len(Unread(call.before.in)) >= call.before.req.content_len )
    => /\ Len(call.ev) = 2
       /\ call.ev[1].h = "POST"
       /\ call.ev[1].st = NOT_IMPLEMENTED
       /\ call.ev[2].e = "end_request"
       /\ call.ev[2].st = NOT_IMPLEMENTED
       /\ client.in.pos = call.before.in.pos + call.before.req.content_len
       /\ client.req = NULL

\* The files a URI can name, stated without open_file: the path itself or,
\* for a directory, the index.html in it.
Resolves(uri) ==
    \/ www_folder \o uri \in RegularFiles
    \/ /\ www_folder \o uri \in Directories
       /\ \E f \in RegularFiles :
            \/ f = www_folder \o uri \o index_html
            \/ f = www_folder \o uri \o <<"/">> \o index_html

\* C8: a GET whose path does not resolve to a file (missing, or a directory
\* without index.html) ends the request with 404; no pipe is attached, no
\* descriptor was opened, and nothing but the 404 response was written.
C8_MissingGet ==
    ( /\ mode = "conn"
      /\ call.op = "http_parse"
      /\ call.ev # << >>
      /\ call.ev[1].h = "GET"
      /\ ~Resolves(call.ev[1].req.uri) )
    => /\ Len(call.ev) = 2
       /\ call.ev[1].st = NOT_FOUND
       /\ call.ev[2].e = "end_request"
       /\ call.ev[2].st = NOT_FOUND
       /\ call.ret = -1
       /\ client.req = NULL
       /\ client.pipe = NULL
       /\ client.files = call.before.files
       /\ OpenFds(client) = {}
       /\ client.out = Append(call.before.out,
                              [k |-> "status", name |-> "", value |-> "",
                               num |-> NOT_FOUND])

\* a GET for a directory that holds no index.html was handled
C8_Witness ==
    /\ mode = "conn"
    /\ call.op = "http_parse"
    /\ call.ev # << >>
    /\ call.ev[1].h = "GET"
    /\ call.ev[1].req.uri = uDir
    /\ call.ev[1].st = NOT_FOUND

HasClose(req) ==
    \E i \in 1..Len(req.headers) :
        /\ req.headers[i].key = kConnection
        /\ Folded(req.headers[i].val) = vClose

\* C9: an http_parse call in which handle_get returned 0 for a request
\* without Connection: close returns 0 and leaves client->req NULL; and
\* after such a GET, an http_parse call that finds a second request whole in
\* the input buffer does what a call on a new connection holding that
\* request does: the same events, the same return value, the same request
\* left in flight.
C9_KeepAlive ==
    mode = "conn" =>
        /\ ( /\ call.op = "http_parse"
             /\ call.ev # << >>
             /\ call.ev[1].h = "GET"
             /\ call.ev[1].st = 0
             /\ ~HasClose(call.ev[1].req) )
           => /\ call.ret = 0
              /\ client.req = NULL
              /\ ~client.closing
              /\ Len(call.ev) = 1
        /\ ( /\ call.op = "http_parse"
             /\ call.before.req = NULL
             /\ Len(scen) = 2
             /\ Len(trace) >= 1
             /\ trace[1][1].h = "GET"
             /\ trace[1][1].st = 0
             /\ Unread(call.before.in) = Wire(scen[2]) )
           => /\ call.ev = OneShot(scen[2]).ev
              /\ call.ret = OneShot(scen[2]).ret
              /\ client.req = OneShot(scen[2]).client.req
              /\ Unread(client.in) = Unread(OneShot(scen[2]).client.in)

\* after a GET that was served, a POST that arrived whole was handled
C9_Witness ==
    /\ mode = "conn"
    /\ call.op = "http_parse"
    /\ Len(trace) = 2
    /\ trace[1][1].h = "GET"
    /\ trace[1][1].st = 0
    /\ trace[2][1].h = "POST"
    /\ Unread(call.before.in) = Wire(scen[2])
    /\ call.before.req = NULL

\* the handler calls of a sequence of events, in order
RECURSIVE Handlers(_)
Handlers(ev) ==
    IF ev = << >> THEN << >>
    ELSE (IF ev[1].e = "handler" THEN <<ev[1]>> ELSE << >>)
           \o Handlers(Tail(ev))

RECURSIVE Flat(_)
Flat(t) == IF t = << >> THEN << >> ELSE t[1] \o Flat(Tail(t))

IsSuffix(a, b) ==
    Len(a) <= Len(b) /\ a = SubSeq(b, Len(b) - Len(a) + 1, Len(b))

\* C12: an http_parse call made with a request in flight parses no request
\* line and allocates no second Request (the request after the call, and
\* the request any handler is given, has the method and uri it had, and the
\* headers it had are still the tail of its list); every call calls at most
\* one handler and never moves pos back; and the handlers called on the
\* connection are given the requests in the order the peer sent them.
C12_OneInFlight ==
    mode = "conn" =>
        /\ (call.op = "http_parse" /\ call.before.req # NULL) =>
               /\ client.req # NULL =>
                      /\ client.req.method = call.before.req.method
                      /\ client.req.uri = call.before.req.uri
                      /\ IsSuffix(call.before.req.headers, client.req.headers)
               /\ \A i \in 1..Len(call.ev) :
                      call.ev[i].e = "handler" =>
                          /\ call.ev[i].req.method = call.before.req.method
                          /\ call.ev[i].req.uri = call.before.req.uri
        /\ call.op = "http_parse" =>
               /\ Len(Handlers(call.ev)) <= 1
               /\ client.in.pos >= call.before.in.pos
               /\ client.in.pos <= client.in.datasize
               /\ client.in.buf = call.before.in.buf
        /\ LET hs == Handlers(Flat(trace))
           IN  /\ Len(hs) <= Len(scen)
               /\ \A j \in 1..Len(hs) :
                      /\ Folded(hs[j].req.method) = Folded(scen[j].method)
                      /\ hs[j].req.uri = scen[j].uri

\* a request in flight was dispatched by a call that left the bytes of the
\* next request in the buffer
C12_Witness ==
    /\ mode = "conn"
    /\ call.op = "http_parse"
    /\ call.before.req # NULL
    /\ call.before.req.method # << >>
    /\ Len(call.ev) = 1
    /\ call.ev[1].e = "handler"
    /\ Len(scen) = 2
    /\ Unread(client.in) = Wire(scen[2])

\* C13 as claimed: http_parse returns 0 or -1 only; a call that ends a
\* request with an error status returns -1 with the status line written,
\* the request dropped and the connection to be closed; and no call returns
\* with a line of MAXBUF bytes or more next in the buffer (a line too long
\* for the request line or for a header) without such an end.
C13_FailuresEnd ==
    (mode = "conn" /\ call.op = "http_parse") =>
        /\ call.ret \in {0, -1}
        /\ \A i \in 1..Len(call.ev) :
               call.ev[i].e = "end_request" =>
                   /\ call.ret = -1
                   /\ client.closing
                   /\ client.req = NULL
                   /\ client.out # << >>
                   /\ client.out[Len(client.out)] =
                          [k |-> "status", name |-> "", value |-> "",
                           num |-> call.ev[i].st]
        /\ (client.req = NULL \/ client.req.content_len = -1) =>
               \/ client_readline(client.in, << >>).ret >= 0
               \/ /\ call.ev # << >>
                  /\ call.ev[Len(call.ev)].e = "end_request"

\* C16: a descriptor that open_file opened is open exactly while a pipe
\* over it is attached, and no descriptor is closed twice: an io_pipe call
\* that returns 0 leaves the source open and the pipe attached, one that
\* returns 1 or -1 (end of file, read error, send error) leaves every
\* descriptor of the connection closed exactly once; an http_parse call in
\* which handle_head returned 0 returns with the descriptor it opened
\* closed, one in which handle_get returned 0 returns with it open under the
\* pipe; and a connection that was closed has no descriptor open.
C16_SourceClosedOnce ==
    mode = "conn" =>
        /\ \A fd \in DOMAIN client.files :
               /\ client.files[fd].nclose <= 1
               /\ client.files[fd].open <=> client.files[fd].nclose = 0
        /\ OpenFds(client) =
               IF client.pipe = NULL THEN {} ELSE {client.pipe.from_fd}
        /\ call.op = "io_pipe" =>
               /\ call.ret = 0 <=> client.pipe # NULL
               /\ call.ret # 0 =>
                      \A fd \in DOMAIN client.files :
                          client.files[fd].nclose = 1
        /\ ( /\ call.op = "http_parse"
             /\ Handlers(call.ev) # << >>
             /\ Handlers(call.ev)[1].st = 0 )
           => /\ Cardinality(DOMAIN client.files) =
                     Cardinality(DOMAIN call.before.files) + 1
              /\ Handlers(call.ev)[1].h = "HEAD" => OpenFds(client) = {}
              /\ Handlers(call.ev)[1].h = "GET" =>
                     Cardinality(OpenFds(client)) = 1
        /\ client.closed => OpenFds(client) = {}

\* an io_pipe call ended the stream because send() failed after data had
\* been read from the source
C16_Witness ==
    /\ mode = "conn"
    /\ call.op = "io_pipe"
    /\ call.ret = -1
    /\ \E fd \in DOMAIN client.files :
           /\ client.files[fd].ndata >= 1
           /\ client.files[fd].nread = client.files[fd].ndata
           /\ client.files[fd].nclose = 1

ItemNames(out) ==
    [i \in 1..Len(out) |-> IF out[i].k = "header" THEN out[i].name
                           ELSE out[i].k]

SixHeaders ==
    <<"status", "Content-Type", "Content-Length", "Date", "Last-Modified",
      "Server", "Connection", "text">>

\* C18: for the client and request a GET or HEAD handler was called with,
\* handle_head and handle_get write the same items in the same order and
\* return the same status; where that status is 0 the items are the status
\* line 200, Content-Type, Content-Length, Date, Last-Modified, Server,
\* Connection and the blank line, handle_head leaves the descriptor closed,
\* no pipe attached and the status C_IDLE, and handle_get leaves the
\* descriptor open under a new pipe and the status C_PIPING.  The state
\* after the http_parse call that dispatched a HEAD is the one handle_head
\* gives.
C18_HeadMirrorsGet ==
    ( /\ mode = "conn"
      /\ call.op = "http_parse"
      /\ Handlers(call.ev) # << >>
      /\ Handlers(call.ev)[1].h \in {"GET", "HEAD"} )
    => LET e == Handlers(call.ev)[1]
           c0 == [call.before EXCEPT !.req = e.req]
           h == handle_head(c0)
           g == handle_get(c0)
           n == Len(c0.out)
       IN  /\ h.client.out = g.client.out
           /\ h.ret = g.ret
           /\ h.ret = e.st
           /\ DOMAIN h.client.files = DOMAIN g.client.files
           /\ h.client.status = "C_IDLE"
           /\ g.client.status = "C_PIPING"
           /\ h.client.pipe = NULL
           /\ OpenFds(h.client) = {}
           /\ h.ret = 0 =>
                  /\ ItemNames(SubSeq(h.client.out, n + 1, Len(h.client.out)))
                         = SixHeaders
                  /\ h.client.out[n + 1].num = OK
                  /\ g.client.pipe # NULL
                  /\ g.client.pipe.p = init_pipe
                  /\ OpenFds(g.client) = {g.client.pipe.from_fd}
                  /\ h.client.files[g.client.pipe.from_fd].nclose = 1
           /\ (e.h = "HEAD" /\ e.st = 0) =>
                  /\ client.out = g.client.out
                  /\ client.pipe = NULL
                  /\ client.status = "C_IDLE"
                  /\ client.files = h.client.files

\* a HEAD for a file that is there was answered
C18_Witness ==
    /\ mode = "conn"
    /\ call.op = "http_parse"
    /\ Handlers(call.ev) # << >>
    /\ Handlers(call.ev)[1].h = "HEAD"
    /\ Handlers(call.ev)[1].st = 0
    /\ Len(client.out) = Len(call.before.out) + Len(SixHeaders)

\* the bytes of a request up to and with the blank line
HeadLen(r) == Len(Wire(r)) - Len(r.body)

\* the Content-Length values a request carries
Lengths(r) ==
    { r.hdrs[i].val : i \in { j \in 1..Len(r.hdrs) :
                                  r.hdrs[j].key = kContentLength } }

\* the number a string of digits writes, however long
RECURSIVE Decimal(_)
Decimal(s) ==
    IF s = << >> THEN 0
    ELSE 10 * Decimal(SubSeq(s, 1, Len(s) - 1)) + DigitVal(s[Len(s)])

\* C19 as claimed: an http_parse call that finds the whole header section
\* of a POST request in the buffer of a new connection ends the request
\* with 411 when the request has no Content-Length, with 400 when the value
\* has a character that is no digit, and otherwise gives content_len the
\* decimal value of the digits, which is not negative (the request then
\* waits for its body with that content_len, or was handed to handle_post
\* with it).
C19_ContentLength ==
    ( /\ mode = "conn"
      /\ call.op = "http_parse"
      /\ Len(scen) = 1
      /\ scen[1].method = mPOST
      /\ call.before.req = NULL
      /\ call.before.in.pos = 0
      /\ call.before.in.datasize >= HeadLen(scen[1]) )
    => LET r == scen[1]
           v == CHOOSE x \in Lengths(r) : TRUE
       IN  IF Lengths(r) = {}
           THEN /\ call.ev = <<[e |-> "end_request", h |-> "", req |-> NULL,
                                st |-> LENGTH_REQUIRED]>>
                /\ call.ret = -1
           ELSE IF \E i \in 1..Len(v) : ~IsDigit(v[i])
           THEN /\ call.ev = <<[e |-> "end_request", h |-> "", req |-> NULL,
                                st |-> BAD_REQUEST]>>
                /\ call.ret = -1
           ELSE \/ /\ client.req # NULL
                   /\ client.req.content_len = Decimal(v)
                   /\ client.req.content_len >= 0
                   /\ client.in.pos = HeadLen(r)
                   /\ call.ev = << >>
                   /\ call.ret = 0
                \/ /\ Handlers(call.ev) # << >>
                   /\ Handlers(call.ev)[1].h = "POST"
                   /\ Handlers(call.ev)[1].req.content_len = Decimal(v)
                   /\ Len(r.body) >= Decimal(v)

C21_PipingIffPipe ==
    ( /\ mode = "conn"
      /\ call.op = "http_parse"
      /\ Handlers(call.ev) # << >>
      /\ Handlers(call.ev)[1].h \in {"GET", "HEAD"} )
    => LET e == Handlers(call.ev)[1]
           c0 == [call.before EXCEPT !.req = e.req]
           h == handle_head(c0)
           g == handle_get(c0)
       IN  /\ g.client.status = "C_PIPING" =>
                  /\ g.client.pipe # NULL
                  /\ g.client.pipe.from_fd \in OpenFds(g.client)
           /\ g.client.pipe # NULL => g.client.status = "C_PIPING"
           /\ g.ret # 0 =>
                  ~(g.client.status = "C_PIPING" /\ g.client.pipe = NULL)
           /\ ~(h.client.status = "C_PIPING" /\ h.client.pipe = NULL)

\* C22: from init_buf, over io_recv calls, consumption and io_send calls
\* with the io_shrink calls io_send makes, the window bufsize - datasize - 1
\* is at least 1 before every recv call: in every state (the first recv of
\* an io_recv call) and after every step of the loop of io_recv, so that no
\* recv call returned 0 because of a window of 0; and after an io_shrink
\* call bufsize is above BUFSIZE / 2.
C22_WindowOpen ==
    mode = "buf" =>
        /\ bp.bufsize - bp.datasize - 1 >= 1
        /\ bop.op = "io_recv" =>
               /\ ~bop.recv.zerowin
               /\ bop.before.bufsize - bop.before.datasize - 1 >= 1
               /\ \A i \in 1..Len(bop.recv.steps) :
                      bop.recv.steps[i].newcap - bop.recv.steps[i].size - 1
                          >= 1
        /\ bop.shrunk =>
               /\ empty(bop.before)
               /\ 2 * bp.bufsize > BUFSIZE

\* an io_recv call whose first recv had a window of one byte took bytes in
\* a buffer that an io_send call had shrunk
C22_Witness ==
    /\ mode = "buf"
    /\ bop.op = "io_recv"
    /\ bop.recv.steps # << >>
    /\ bop.before.bufsize - bop.before.datasize - 1 = 1
    /\ bop.before.bufsize \notin {4, 6, 9, 13, 19}

====
